---- MODULE Spec2Model ----
(***************************************************************************)
(* makedemo.py: the HTML demo generator.  One run is                       *)
(*     line 6   jsons = Path("demo/").glob("*.json")   (a lazy generator)  *)
(*     line 8   with open("demo/demo.html", "w") as f                      *)
(*     line 9   print(script tag), line 10 print(), line 11-19 print(style)*)
(*     line 21  sorted([j.name for j in jsons])  (the directory is read)   *)
(*     line 22  print(widget line) for each name                           *)
(* and leaving the with block closes f.  Text is a sequence of code        *)
(* points; the output file is the sequence of its bytes (all text here is  *)
(* ASCII, one byte per code point).                                        *)
(***************************************************************************)
EXTENDS Integers, Sequences, FiniteSets

\* ------------------------------------------------------------ bounds
\* how many of the names of NameList may occur in demo/
NumNames == 2
\* length of the foreign content demo/demo.html may hold initially
StaleLen == 600

\* ------------------------------------------------------------ text
NL == 10

\* '<script src="https://unpkg.com/@lottiefiles/lottie-player@latest/dist/lottie-player.js"></script>'
ScriptText ==
    <<
       60, 115, 99, 114, 105, 112, 116, 32, 115, 114, 99, 61, 34, 104, 116, 116, 112, 115, 58, 47,
       47, 117, 110, 112, 107, 103, 46, 99, 111, 109, 47, 64, 108, 111, 116, 116, 105, 101, 102, 105,
       108, 101, 115, 47, 108, 111, 116, 116, 105, 101, 45, 112, 108, 97, 121, 101, 114, 64, 108, 97,
       116, 101, 115, 116, 47, 100, 105, 115, 116, 47, 108, 111, 116, 116, 105, 101, 45, 112, 108, 97,
       121, 101, 114, 46, 106, 115, 34, 62, 60, 47, 115, 99, 114, 105, 112, 116, 62 >>

\* the triple-quoted <style> block, 184 characters
StyleText ==
    <<
       10, 32, 32, 32, 32, 32, 32, 32, 32, 60, 115, 116, 121, 108, 101, 62, 10, 32, 32, 32,
       32, 32, 32, 32, 32, 32, 32, 32, 32, 108, 111, 116, 116, 105, 101, 45, 112, 108, 97, 121,
       101, 114, 32, 123, 10, 32, 32, 32, 32, 32, 32, 32, 32, 32, 32, 32, 32, 32, 32, 32,
       32, 119, 105, 100, 116, 104, 58, 32, 50, 52, 48, 112, 120, 59, 10, 32, 32, 32, 32, 32,
       32, 32, 32, 32, 32, 32, 32, 32, 32, 32, 32, 104, 101, 105, 103, 104, 116, 58, 32, 50,
       52, 48, 112, 120, 59, 10, 32, 32, 32, 32, 32, 32, 32, 32, 32, 32, 32, 32, 32, 32,
       32, 32, 100, 105, 115, 112, 108, 97, 121, 58, 32, 105, 110, 108, 105, 110, 101, 45, 98, 108,
       111, 99, 107, 59, 10, 32, 32, 32, 32, 32, 32, 32, 32, 32, 32, 32, 32, 125, 10, 32,
       32, 32, 32, 32, 32, 32, 32, 60, 47, 115, 116, 121, 108, 101, 62, 10, 32, 32, 32, 32,
       32, 32, 32, 32 >>

\* '<lottie-player autoplay loop mode="normal" src="./'
WidgetOpen ==
    <<
       60, 108, 111, 116, 116, 105, 101, 45, 112, 108, 97, 121, 101, 114, 32, 97, 117, 116, 111, 112,
       108, 97, 121, 32, 108, 111, 111, 112, 32, 109, 111, 100, 101, 61, 34, 110, 111, 114, 109, 97,
       108, 34, 32, 115, 114, 99, 61, 34, 46, 47 >>

\* '"></lottie-player>'
WidgetClose ==
    << 34, 62, 60, 47, 108, 111, 116, 116, 105, 101, 45, 112, 108, 97, 121, 101, 114, 62 >>

\* '*': every entry
PatternAny == << 42 >>

\* '*.json'
Pattern ==
    << 42, 46, 106, 115, 111, 110 >>

\* 'demo.html'
OutName ==
    << 100, 101, 109, 111, 46, 104, 116, 109, 108 >>

\* names that may occur in demo/ (besides demo.html)
a_json == << 97, 46, 106, 115, 111, 110 >>
ab_json == << 97, 98, 46, 106, 115, 111, 110 >>
B_json == << 66, 46, 106, 115, 111, 110 >>
ajson == << 97, 106, 115, 111, 110 >>
a_txt == << 97, 46, 116, 120, 116 >>
NameList == << ab_json, a_json, ajson, B_json, a_txt >>
Names == { NameList[k] : k \in 1..NumNames }

\* the two script processes (operators may start the script concurrently)
Procs == { 1, 2 }

\* ------------------------------------------------------------ pure functions
\* fnmatch: "*" matches any run of characters, every other character of the
\* pattern matches itself (the pattern holds no "?" and no "[")
RECURSIVE FnMatch(_, _)
FnMatch(pat, s) ==
    IF pat = << >> THEN s = << >>
    ELSE IF Head(pat) = 42
         THEN \E k \in 0..Len(s) : FnMatch(Tail(pat), SubSeq(s, k + 1, Len(s)))
         ELSE /\ s # << >>
              /\ Head(s) = Head(pat)
              /\ FnMatch(Tail(pat), Tail(s))

\* iterdir(): every entry of the listing
GlobUnfiltered(listing) == listing

\* the entries of a directory listing Path.glob yields
Glob(listing) == { n \in listing : FnMatch(Pattern, n) }

\* str.__lt__: code points compared left to right, then the lengths
RECURSIVE StrLess(_, _)
StrLess(a, b) ==
    IF b = << >> THEN FALSE
    ELSE IF a = << >> THEN TRUE
    ELSE IF Head(a) # Head(b) THEN Head(a) < Head(b)
    ELSE StrLess(Tail(a), Tail(b))

RECURSIVE Insert(_, _)
Insert(x, s) ==
    IF s = << >> THEN << x >>
    ELSE IF StrLess(x, Head(s)) THEN << x >> \o s
    ELSE << Head(s) >> \o Insert(x, Tail(s))

RECURSIVE InsertionSort(_, _)
InsertionSort(done, rest) ==
    IF rest = << >> THEN done
    ELSE InsertionSort(Insert(Head(rest), done), Tail(rest))

\* the identity: the list left in directory order
Unsorted(s) == s

\* sorted(list): a new list in ascending order
Sorted(s) == InsertionSort(<< >>, s)

\* print(text, file=f) writes the text and a newline
PrintText(text) == text \o << NL >>

\* the widget tag without the "./" of the relative path
WidgetLineBare(filename) == SubSeq(WidgetOpen, 1, Len(WidgetOpen) - 2) \o filename \o WidgetClose

\* the f-string of line 22: the name is put in verbatim
WidgetLine(filename) == WidgetOpen \o filename \o WidgetClose

\* the orders in which scandir may yield a set of entries
Orders(S) ==
    { s \in [1..Cardinality(S) -> S] : \A i, j \in 1..Cardinality(S) : i # j => s[i] # s[j] }

\* a file's bytes after `bytes` is written at offset pos (a gap is
\* zero-filled; writing nothing changes nothing)
WriteAt(data, pos, bytes) ==
    LET padded == IF pos > Len(data)
                  THEN data \o [k \in 1..(pos - Len(data)) |-> 0]
                  ELSE data
        stop == pos + Len(bytes)
    IN  IF bytes = << >> THEN data
        ELSE SubSeq(padded, 1, pos) \o bytes \o SubSeq(padded, stop + 1, Len(padded))

\* mode "r+": the old bytes stay, writing starts at offset 0
OpenNoTrunc(data) == [data |-> data, pos |-> 0]

\* mode "a": the old bytes stay, writing starts at their end
OpenAppend(data) == [data |-> data, pos |-> Len(data)]

\* open(path, "w"): the file is emptied, writing starts at offset 0
OpenW(data) == [data |-> << >>, pos |-> 0]

\* makedirs first: the open succeeds whatever the directory's state
CanOpenAlways(state) == TRUE

\* open() creates or opens demo/demo.html only inside an existing demo/
CanOpen(state) == state # "missing"

\* a plain open() without with: an exception skips the close
ExitNoFinally(h, raised) ==
    IF raised THEN h ELSE [h EXCEPT !.state = "closed", !.buf = << >>]

\* __exit__ of the with statement: f is closed, exception or not
ExitWith(h, raised) == [h EXCEPT !.state = "closed", !.buf = << >>]

\* ------------------------------------------------------------ state
VARIABLES
    dirState,    \* demo/: "ok", "unreadable" (no read permission) or "missing"
    entries,     \* the names in demo/ other than demo.html
    fileExists,  \* whether demo/demo.html exists
    fileData,    \* the bytes of demo/demo.html
    pc,          \* pc[p]: the line process p executes next
    jsons,       \* jsons[p]: the generator of line 6
    f,           \* f[p]: the file object of line 8
    names,       \* names[p]: the list the for statement of line 21 iterates
    i,           \* i[p]: the index of the next element of names[p]
    err,         \* err[p]: where the exception that ended the run was raised
    touched,     \* touched[p]: another program changed demo/ since the run began
    start,       \* start[p]: what the current run found when it began
    intact,      \* intact[p]: no run has created or changed demo/demo.html since p's run began
    shuffled,    \* shuffled[p]: scandir gave the names in an order that is not the sorted one
    raced,       \* some run opened demo/demo.html while another run held it open
    prev         \* prev[p]: what the run before left, while nothing has changed since it began

vars ==
    << dirState, entries, fileExists, fileData, pc, jsons, f, names, i, err,
       touched, start, intact, shuffled, raced, prev >>

NoHandle == [state |-> "none", pos |-> 0, buf |-> << >>, orphan |-> FALSE]

\* no run came before
NoPrev == [ok |-> FALSE, data |-> << >>]

\* foreign content demo/demo.html may hold before the first run
Stale == [k \in 1..StaleLen |-> 88]

\* the directories a behaviour may start from
InitEntries == SUBSET Names

\* what scandir("demo") lists
Listing == IF dirState = "ok" THEN entries \cup (IF fileExists THEN { OutName } ELSE {}) ELSE {}

Init ==
    /\ dirState \in { "ok", "unreadable", "missing" }
    /\ entries \in (IF dirState = "missing" THEN { {} } ELSE InitEntries)
    /\ fileExists \in (IF dirState = "missing" THEN { FALSE } ELSE BOOLEAN)
    /\ fileData = IF fileExists THEN Stale ELSE << >>
    /\ pc = [p \in Procs |-> "idle"]
    /\ jsons = [p \in Procs |-> "unset"]
    /\ f = [p \in Procs |-> NoHandle]
    /\ names = [p \in Procs |-> << >>]
    /\ i = [p \in Procs |-> 1]
    /\ err = [p \in Procs |-> "none"]
    /\ touched = [p \in Procs |-> FALSE]
    /\ start = [p \in Procs |-> [dir |-> dirState, size |-> Len(fileData)]]
    /\ intact = [p \in Procs |-> TRUE]
    /\ shuffled = [p \in Procs |-> FALSE]
    /\ raced = FALSE
    /\ prev = [p \in Procs |-> NoPrev]

\* ------------------------------------------------------------ the script
\* line 6: glob() only builds the generator, the directory is not read
Begin(p) ==
    /\ jsons' = [jsons EXCEPT ![p] = "lazy"]
    /\ f' = [f EXCEPT ![p] = NoHandle]
    /\ names' = [names EXCEPT ![p] = << >>]
    /\ i' = [i EXCEPT ![p] = 1]
    /\ err' = [err EXCEPT ![p] = "none"]
    /\ touched' = [touched EXCEPT ![p] = FALSE]
    /\ start' = [start EXCEPT ![p] = [dir |-> dirState, size |-> Len(fileData)]]
    /\ intact' = [intact EXCEPT ![p] = TRUE]
    /\ shuffled' = [shuffled EXCEPT ![p] = FALSE]
    /\ prev' = [prev EXCEPT ![p] =
                  IF pc[p] = "done" /\ ~touched[p]
                  THEN [ok |-> TRUE, data |-> fileData]
                  ELSE NoPrev]
    /\ pc' = [pc EXCEPT ![p] = "L8"]
    /\ UNCHANGED << dirState, entries, fileExists, fileData, raced >>

\* the operator starts the script
Start(p) ==
    /\ pc[p] = "idle"
    /\ Begin(p)

\* the operator starts the script again after a run has ended
Restart(p) ==
    /\ pc[p] \in { "done", "failed" }
    /\ Begin(p)

\* line 8: open("demo/demo.html", "w")
OpenOk(p) ==
    /\ pc[p] = "L8"
    /\ CanOpen(dirState)
    /\ LET o == OpenW(fileData)
       IN  /\ fileExists' = TRUE
           /\ fileData' = o.data
           /\ f' = [f EXCEPT ![p] = [state |-> "open", pos |-> o.pos, buf |-> << >>, orphan |-> FALSE]]
    /\ raced' = (raced \/ \E q \in Procs \ { p } : f[q].state = "open" /\ ~f[q].orphan)
    /\ pc' = [pc EXCEPT ![p] = "L9"]
    /\ intact' = [q \in Procs |-> intact[q] /\ fileData' = fileData /\ fileExists' = fileExists]
    /\ UNCHANGED << dirState, entries, jsons, names, i, err, touched, start, shuffled, prev >>

\* line 8: FileNotFoundError, the script ends with the traceback
OpenFail(p) ==
    /\ pc[p] = "L8"
    /\ ~CanOpen(dirState)
    /\ err' = [err EXCEPT ![p] = "open"]
    /\ pc' = [pc EXCEPT ![p] = "failed"]
    /\ UNCHANGED << dirState, entries, fileExists, fileData, jsons, f, names, i, touched, start, intact, shuffled, raced, prev >>

\* print(text, file=f): the text goes to f's buffer
PrintTo(p, text, next) ==
    /\ f' = [f EXCEPT ![p].buf = @ \o PrintText(text)]
    /\ pc' = [pc EXCEPT ![p] = next]
    /\ UNCHANGED << dirState, entries, fileExists, fileData, jsons, names, err, touched, start, intact, shuffled, raced, prev >>

\* line 9
PrintScript(p) ==
    /\ pc[p] = "L9"
    /\ PrintTo(p, ScriptText, "L10")
    /\ UNCHANGED i

\* line 10
PrintBlank(p) ==
    /\ pc[p] = "L10"
    /\ PrintTo(p, << >>, "L11")
    /\ UNCHANGED i

\* lines 11-19
PrintStyle(p) ==
    /\ pc[p] = "L11"
    /\ PrintTo(p, StyleText, "L21")
    /\ UNCHANGED i

\* line 21: the generator runs now: is_dir(), scandir(), the filter, then sorted().
\* A directory that is missing or denies reading yields nothing.
Scan(p) ==
    /\ pc[p] = "L21"
    /\ \E order \in Orders(Glob(Listing)) :
          /\ shuffled' = [shuffled EXCEPT ![p] = \E k \in 1..(Len(order) - 1) : StrLess(order[k + 1], order[k])]
          /\ names' = [names EXCEPT ![p] = Sorted(order)]
    /\ jsons' = [jsons EXCEPT ![p] = "consumed"]
    /\ i' = [i EXCEPT ![p] = 1]
    /\ pc' = [pc EXCEPT ![p] = "L22"]
    /\ UNCHANGED << dirState, entries, fileExists, fileData, f, err, touched, start, intact, raced, prev >>

\* line 21: scandir() raises an OSError the generator does not swallow (it
\* swallows PermissionError only): no descriptor left, an I/O error, or the
\* directory removed after is_dir() answered
ScanRaise(p) ==
    /\ pc[p] = "L21"
    /\ dirState # "unreadable"
    /\ jsons' = [jsons EXCEPT ![p] = "consumed"]
    /\ err' = [err EXCEPT ![p] = "scan"]
    /\ pc' = [pc EXCEPT ![p] = "exit"]
    /\ UNCHANGED << dirState, entries, fileExists, fileData, f, names, i, touched, start, intact, shuffled, raced, prev >>

\* line 22, one iteration
Loop(p) ==
    /\ pc[p] = "L22"
    /\ i[p] <= Len(names[p])
    /\ PrintTo(p, WidgetLine(names[p][i[p]]), "L22")
    /\ i' = [i EXCEPT ![p] = @ + 1]

\* line 21: the list is exhausted, the with block is left
LoopEnd(p) ==
    /\ pc[p] = "L22"
    /\ i[p] > Len(names[p])
    /\ pc' = [pc EXCEPT ![p] = "exit"]
    /\ UNCHANGED << dirState, entries, fileExists, fileData, jsons, f, names, i, err, touched, start, intact, shuffled, raced, prev >>

\* the bytes of demo/demo.html after handle h writes `bytes` (an unlinked file
\* is no longer demo/demo.html)
Written(h, bytes) ==
    IF h.orphan THEN fileData ELSE WriteAt(fileData, h.pos, bytes)

\* a print of line 22 filled the buffer (the header is smaller than the
\* buffer): the buffer's content is written at the file offset
Flush(p) ==
    /\ pc[p] = "L22"
    /\ f[p].state = "open"
    /\ f[p].buf # << >>
    /\ fileData' = Written(f[p], f[p].buf)
    /\ f' = [f EXCEPT ![p].pos = @ + Len(f[p].buf), ![p].buf = << >>]
    /\ intact' = [q \in Procs |-> intact[q] /\ fileData' = fileData]
    /\ UNCHANGED << dirState, entries, fileExists, pc, jsons, names, i, err, touched, start, shuffled, raced, prev >>

\* the points at which a failing write may have stopped
PartialCuts(buf) == { Len(buf) \div 2 }

\* the write fails (disk full) after k bytes: OSError propagates out of print
FlushFail(p) ==
    /\ pc[p] = "L22"
    /\ f[p].state = "open"
    /\ f[p].buf # << >>
    /\ \E k \in PartialCuts(f[p].buf) :
          /\ fileData' = Written(f[p], SubSeq(f[p].buf, 1, k))
          /\ f' = [f EXCEPT ![p].pos = @ + k,
                            ![p].buf = SubSeq(@, k + 1, Len(@))]
    /\ err' = [err EXCEPT ![p] = "write"]
    /\ pc' = [pc EXCEPT ![p] = "exit"]
    /\ intact' = [q \in Procs |-> intact[q] /\ fileData' = fileData]
    /\ UNCHANGED << dirState, entries, fileExists, jsons, names, i, touched, start, shuffled, raced, prev >>

\* leaving the with block: close() writes what is buffered and closes f
CloseOk(p) ==
    /\ pc[p] = "exit"
    /\ LET h == ExitWith(f[p], err[p] # "none")
           data == IF h.state = "closed" THEN Written(f[p], f[p].buf) ELSE fileData
       IN  /\ f' = [f EXCEPT ![p] = [h EXCEPT !.pos = IF h.state = "closed" THEN @ + Len(f[p].buf) ELSE @]]
           /\ fileData' = data
    /\ pc' = [pc EXCEPT ![p] = IF err[p] = "none" THEN "done" ELSE "failed"]
    /\ intact' = [q \in Procs |-> intact[q] /\ fileData' = fileData]
    /\ UNCHANGED << dirState, entries, fileExists, jsons, names, i, err, touched, start, shuffled, raced, prev >>

\* leaving the with block: the write inside close() fails, f is closed all the same
CloseFail(p) ==
    /\ pc[p] = "exit"
    /\ f[p].buf # << >>
    /\ f' = [f EXCEPT ![p] = ExitWith(f[p], TRUE)]
    /\ err' = [err EXCEPT ![p] = IF @ = "none" THEN "close" ELSE @]
    /\ pc' = [pc EXCEPT ![p] = "failed"]
    /\ UNCHANGED << dirState, entries, fileExists, fileData, jsons, names, i, touched, start, intact, shuffled, raced, prev >>

\* ------------------------------------------------------------ other programs
EnvStep ==
    /\ touched' = [p \in Procs |-> TRUE]
    /\ prev' = [p \in Procs |-> NoPrev]
    /\ UNCHANGED << pc, jsons, names, i, err, start, shuffled, raced >>

AddEntry ==
    /\ EnvStep
    /\ dirState # "missing"
    /\ \E n \in Names \ entries : entries' = entries \cup { n }
    /\ UNCHANGED << dirState, fileExists, fileData, f, intact >>

RemoveEntry ==
    /\ EnvStep
    /\ \E n \in entries : entries' = entries \ { n }
    /\ UNCHANGED << dirState, fileExists, fileData, f, intact >>

Chmod ==
    /\ EnvStep
    /\ dirState # "missing"
    /\ dirState' = IF dirState = "ok" THEN "unreadable" ELSE "ok"
    /\ UNCHANGED << entries, fileExists, fileData, f, intact >>

\* rm -r demo: open files are unlinked, their handles stay usable
RemoveDir ==
    /\ EnvStep
    /\ dirState # "missing"
    /\ dirState' = "missing"
    /\ entries' = {}
    /\ fileExists' = FALSE
    /\ fileData' = << >>
    /\ f' = [p \in Procs |-> IF f[p].state = "open" THEN [f[p] EXCEPT !.orphan = TRUE] ELSE f[p]]
    /\ UNCHANGED intact

MakeDir ==
    /\ EnvStep
    /\ dirState = "missing"
    /\ dirState' = "ok"
    /\ UNCHANGED << entries, fileExists, fileData, f, intact >>

Env == AddEntry \/ RemoveEntry \/ Chmod \/ RemoveDir \/ MakeDir

\* ------------------------------------------------------------ specifications
\* the steps of a run in which nothing fails
Run(p) ==
    \/ OpenOk(p)
    \/ PrintScript(p)
    \/ PrintBlank(p)
    \/ PrintStyle(p)
    \/ Scan(p)
    \/ Loop(p)
    \/ LoopEnd(p)
    \/ Flush(p)
    \/ CloseOk(p)

\* the steps at which a run fails
Fail(p) ==
    \/ OpenFail(p)
    \/ ScanRaise(p)
    \/ FlushFail(p)
    \/ CloseFail(p)

\* one operator: runs of process 1, one after another, while other programs
\* change demo/ at any time
Next == Env \/ Start(1) \/ Restart(1) \/ Run(1) \/ Fail(1)

Spec == Init /\ [][Next]_vars

\* entries come and go after one run has read the directory and before the
\* other has (a change before both or after both is a different initial
\* directory)
Between ==
    /\ \E p, q \in Procs : jsons[p] = "consumed" /\ jsons[q] # "consumed"
    /\ (AddEntry \/ RemoveEntry)

InitConc == Init /\ dirState = "ok"

\* two operators: one run of process 1 and one of process 2, interleaved,
\* neither of them failing
NextConc == Between \/ \E p \in Procs : Start(p) \/ Run(p)

SpecConc == InitConc /\ [][NextConc]_vars

\* ------------------------------------------------------------ reading the output
\* the fixed text every artifact begins with: the script line, an empty line,
\* the style block
HeaderBytes == ScriptText \o << NL >> \o << NL >> \o StyleText \o << NL >>

\* the complete artifact for a list of names
RECURSIVE Artifact(_)
Artifact(list) ==
    IF list = << >> THEN HeaderBytes
    ELSE Artifact(SubSeq(list, 1, Len(list) - 1))
            \o WidgetOpen \o list[Len(list)] \o WidgetClose \o << NL >>

IsPrefix(a, b) == Len(a) <= Len(b) /\ a = SubSeq(b, 1, Len(a))

\* a name ending in ".json"
EndsWithJson(n) == Len(n) >= 5 /\ SubSeq(n, Len(n) - 4, Len(n)) = << 46, 106, 115, 111, 110 >>

\* the entries of demo/ that match *.json
Matching ==
    { n \in entries \cup (IF fileExists THEN { OutName } ELSE {}) : EndsWithJson(n) }

\* a before b in lexicographic order: equal up to some position, where a ends or is smaller
LexLT(a, b) ==
    \E k \in 1..Len(b) :
        /\ k - 1 <= Len(a)
        /\ \A j \in 1..(k - 1) : a[j] = b[j]
        /\ (k > Len(a) \/ a[k] < b[k])

\* the positions at which a line of d begins
LineStarts(d) == { s \in 1..Len(d) : s = 1 \/ d[s - 1] = NL }

\* the position of the newline ending the line that begins at s (Len(d) + 1 if none)
LineEnd(d, s) ==
    LET ends == { k \in s..Len(d) : d[k] = NL } \cup { Len(d) + 1 }
    IN  CHOOSE e \in ends : \A e2 \in ends : e <= e2

LineAt(d, s) == SubSeq(d, s, LineEnd(d, s) - 1)

\* a line of the form <lottie-player autoplay loop mode="normal" src="./NAME"></lottie-player>
IsWidget(l) ==
    /\ Len(l) >= Len(WidgetOpen) + Len(WidgetClose)
    /\ SubSeq(l, 1, Len(WidgetOpen)) = WidgetOpen
    /\ SubSeq(l, Len(l) - Len(WidgetClose) + 1, Len(l)) = WidgetClose

NameOf(l) == SubSeq(l, Len(WidgetOpen) + 1, Len(l) - Len(WidgetClose))

WidgetStarts(d) == { s \in LineStarts(d) : IsWidget(LineAt(d, s)) }

\* a run of p has succeeded and no other program has changed demo/ since it began
QuietDone(p) == pc[p] = "done" /\ ~touched[p]

\* ------------------------------------------------------------ claims
\* C1: after a successful run on an existing, readable demo/ the names in the
\* widget lines of demo.html are exactly the entries matching *.json, each in
\* exactly one widget line.
C1_Completeness ==
    \A p \in Procs :
        (QuietDone(p) /\ dirState = "ok") =>
            LET W == WidgetStarts(fileData)
            IN  /\ { NameOf(LineAt(fileData, s)) : s \in W } = Matching
                /\ Cardinality(W) = Cardinality(Matching)

C1_Witness ==
    QuietDone(1) /\ dirState = "ok" /\ Cardinality(Matching) = 2

\* C2: whatever order the directory scan yields, each widget line's name is
\* strictly smaller than the name of the widget line after it.
C2_Ascending ==
    \A p \in Procs :
        pc[p] = "done" =>
            LET W == WidgetStarts(fileData)
            IN  \A s, t \in W :
                    (s < t /\ ~\E u \in W : s < u /\ u < t) =>
                        LexLT(NameOf(LineAt(fileData, s)), NameOf(LineAt(fileData, t)))

C2_Witness ==
    pc[1] = "done" /\ shuffled[1] /\ Cardinality(WidgetStarts(fileData)) >= 2

\* C3: a second run, with nothing changed by others since the first run began,
\* leaves demo.html byte-identical to what the first run left.
C3_Idempotent ==
    \A p \in Procs :
        (QuietDone(p) /\ prev[p].ok) => fileData = prev[p].data

C3_Witness ==
    QuietDone(1) /\ prev[1].ok /\ Len(names[1]) >= 1 /\ fileExists

\* C4: with no entry matching *.json in an existing demo/, a run succeeds and
\* the output is the script line and the style block, with no widget line.
C4_Empty ==
    \A p \in Procs :
        (QuietDone(p) /\ dirState # "missing" /\ Matching = {}) =>
            /\ fileData = HeaderBytes
            /\ WidgetStarts(fileData) = {}

C4_Witness ==
    QuietDone(1) /\ dirState = "ok" /\ Matching = {} /\ start[1].size > 0

\* C5: the output of a successful run with N matching files is one script line,
\* one style block, then exactly N widget lines and nothing after them; for
\* N >= 1 the last line is the widget line of the greatest matching name.
C5_Layout ==
    \A p \in Procs :
        (QuietDone(p) /\ dirState = "ok") =>
            LET d == fileData
                L == LineStarts(d)
                W == WidgetStarts(d)
                h == Len(ScriptText) + 2
            IN  /\ IsPrefix(ScriptText \o << NL >>, d)
                /\ Cardinality({ s \in L : LineAt(d, s) = ScriptText }) = 1
                /\ SubSeq(d, h + 1, h + Len(StyleText) + 1) = StyleText \o << NL >>
                /\ Cardinality(W) = Cardinality(Matching)
                /\ \A s \in L : (s > h + Len(StyleText) + 1) <=> (s \in W)
                /\ d[Len(d)] = NL
                /\ \A n \in Matching :
                      (\A m \in Matching \ { n } : LexLT(m, n)) =>
                          \E s \in W : /\ LineEnd(d, s) = Len(d)
                                       /\ LineAt(d, s) = WidgetOpen \o n \o WidgetClose

C5_Witness ==
    QuietDone(1) /\ dirState = "ok" /\ Cardinality(Matching) = 1

\* C6: when demo/ does not exist the run ends with the filesystem error of
\* line 8, never in success, and no demo.html exists afterwards.
C6_MissingDir ==
    \A p \in Procs :
        (start[p].dir = "missing" /\ ~touched[p] /\ pc[p] \notin { "idle", "L8" }) =>
            /\ pc[p] = "failed"
            /\ err[p] = "open"
            /\ f[p].state = "none"
            /\ ~fileExists

C6_Witness ==
    pc[1] = "failed" /\ err[1] = "open" /\ start[1].dir = "missing" /\ ~touched[1]

\* C7 as stated: demo.html is created or truncated only after the directory
\* has been enumerated, so a run that has not enumerated it, or failed doing
\* so, has left the file as it found it.
C7_WriteIsLast ==
    \A p \in Procs :
        (pc[p] \in { "L8", "L9", "L10", "L11", "L21" } \/ err[p] = "scan") => intact[p]

\* C7 amended: the file is created or truncated at line 8, before the
\* directory is enumerated; until the enumeration has succeeded the file, unless
\* others removed it, holds at most the header and nothing of its previous
\* content; the header has been printed by the time the names are known.
C7_TruncateFirst ==
    \A p \in Procs :
        /\ pc[p] = "L8" => (intact[p] /\ f[p].state = "none")
        /\ (pc[p] \in { "L9", "L10", "L11", "L21" } \/ err[p] = "scan") =>
              /\ names[p] = << >>
              /\ f[p].state # "none"
              /\ (fileExists /\ ~f[p].orphan) => IsPrefix(fileData, HeaderBytes)
        /\ pc[p] = "L22" => f[p].pos + Len(f[p].buf) >= Len(HeaderBytes)

C7_Witness ==
    /\ pc[1] = "failed"
    /\ err[1] = "scan"
    /\ start[1].size > 0
    /\ fileExists
    /\ ~f[1].orphan
    /\ fileData = HeaderBytes

\* C8 as stated: once two concurrent runs have both finished, demo.html is the
\* complete artifact of one of them.
C8_LastWriterWins ==
    (pc[1] = "done" /\ pc[2] = "done") =>
        fileData \in { Artifact(names[1]), Artifact(names[2]) }

\* C8 amended: once two concurrent runs that enumerated the same names have
\* both finished, demo.html is the complete artifact for those names.
C8_SameScan ==
    (pc[1] = "done" /\ pc[2] = "done" /\ names[1] = names[2]) =>
        fileData = Artifact(names[1])

C8_Witness ==
    /\ pc[1] = "done"
    /\ pc[2] = "done"
    /\ raced
    /\ names[1] = names[2]
    /\ Len(names[1]) >= 2

\* C9: after a successful run demo.html is the artifact for the sorted names
\* the run enumerated, whatever the file held before, also when that was longer.
C9_Overwrite ==
    \A p \in Procs :
        (pc[p] = "done" /\ fileExists /\ ~f[p].orphan) => fileData = Artifact(names[p])

C9_Witness ==
    pc[1] = "done" /\ fileExists /\ ~f[1].orphan /\ start[1].size > Len(fileData)

\* C10: f is open only inside the with block: in every terminal state it is
\* closed, and when open() failed it was never held.
C10_Closed ==
    \A p \in Procs :
        /\ pc[p] \in { "done", "failed" } => f[p].state # "open"
        /\ err[p] = "open" => f[p].state = "none"
        /\ f[p].state = "open" => pc[p] \in { "L9", "L10", "L11", "L21", "L22", "exit" }

C10_Witness ==
    pc[1] = "failed" /\ err[1] \in { "write", "scan" } /\ f[1].state = "closed"

====
